---- MODULE Spec2Model ----
(***************************************************************************)
(* A model of uscert-manager: the certificate store (store.py) and the     *)
(* reconciliation and renewal engine of UsCertManager (manager.py).        *)
(*                                                                         *)
(* Strings the code compares or sorts character by character are modelled  *)
(* as sequences of character codes; times are counted in ticks since the   *)
(* midnight that starts day 0.                                             *)
(***************************************************************************)
EXTENDS Integers, Sequences, FiniteSets, TLC

VARIABLES
    store,      \* the certs table: name -> row
    lastPut,    \* history: name -> the domain list of the last replace() not followed by a remove()
    now,        \* the wall clock (UTC), in ticks
    tz,         \* local time minus UTC, in ticks
    config,     \* UsCertManager._config: group name -> section
    pc,         \* where the process is
    todo,       \* names the running loop over config has still to visit
    certs,      \* rows the running loop over store rows has still to visit
    log,        \* calls made since the start of the run or of the running pass
    passStore,  \* history: the store when the run or the running pass began
    syncFailed, \* history: names whose lifecycle action raised in this run's full-sync pass
    prevSync,   \* history: how the previous run's full-sync pass ended
    installed,  \* packages pip has installed
    runs,       \* number of process starts so far
    passes,     \* number of renew passes started in this run
    issued,     \* what the providers keep on disk: <<provider, name>> -> issuance parameters
    faults,     \* number of injected failures so far
    inflight    \* number of executions of _renew_certs a worker thread is in

vars == <<store, lastPut, now, tz, config, pc, todo, certs, log, passStore,
          syncFailed, prevSync, installed, runs, passes, issued, faults, inflight>>

(***************************************************************************)
(* Bounds of the model                                                     *)
(***************************************************************************)
MaxDomains == 2       \* longest domain list drawn
MaxRuns == 2          \* process starts per behaviour
MaxPasses == 2        \* renew passes per run
TicksPerSec == 2      \* clock resolution
MaxFaults == 2        \* failures of external commands and statements per behaviour

Names == {"A", "B"}

\* domain strings "a", "b", "ab" as character sequences
Domains == {<<1>>, <<2>>, <<1, 2>>}

DomainLists == UNION {[1..k -> Domains] : k \in 1..MaxDomains}

(***************************************************************************)
(* Text                                                                    *)
(***************************************************************************)
\* Python's str < str and SQLite's BINARY collation: code point by code point,
\* a proper prefix first
RECURSIVE SeqLess(_, _)
SeqLess(s, t) ==
    IF t = <<>> THEN FALSE
    ELSE IF s = <<>> THEN TRUE
    ELSE IF Head(s) # Head(t) THEN Head(s) < Head(t)
    ELSE SeqLess(Tail(s), Tail(t))

\* x placed in the sorted list l
RECURSIVE Insert(_, _)
Insert(x, l) ==
    IF l = <<>> THEN <<x>>
    ELSE IF SeqLess(x, Head(l)) THEN <<x>> \o l
    ELSE <<Head(l)>> \o Insert(x, Tail(l))

\* sorted(domains)
RECURSIVE Sorted(_)
Sorted(l) == IF l = <<>> THEN <<>> ELSE Insert(Head(l), Sorted(Tail(l)))

\* ''.join(l)
RECURSIVE Join(_)
Join(l) == IF l = <<>> THEN <<>> ELSE Head(l) \o Join(Tail(l))

\* sep.join(l)
RECURSIVE JoinWith(_, _)
JoinWith(l, sep) ==
    IF l = <<>> THEN <<>>
    ELSE IF Len(l) = 1 THEN Head(l)
    ELSE Head(l) \o sep \o JoinWith(Tail(l), sep)

Comma == 44         \* ','
Blank == 32         \* ' '

\* text.split(','): the pieces between the commas, empty ones included
RECURSIVE Split(_)
Split(text) ==
    IF \A i \in 1..Len(text) : text[i] # Comma THEN <<text>>
    ELSE LET i == CHOOSE j \in 1..Len(text) :
                    text[j] = Comma /\ \A k \in 1..(j - 1) : text[k] # Comma
         IN <<SubSeq(text, 1, i - 1)>> \o Split(SubSeq(text, i + 1, Len(text)))

\* x.strip(): without its leading and trailing blanks
RECURSIVE Strip(_)
Strip(x) ==
    IF x = <<>> THEN x
    ELSE IF Head(x) = Blank THEN Strip(Tail(x))
    ELSE IF x[Len(x)] = Blank THEN Strip(SubSeq(x, 1, Len(x) - 1))
    ELSE x

\* hashlib.sha256(text).hexdigest(): taken to be collision free, so a digest is
\* its text under a tag
Sha256(text) == <<"sha256", text>>

\* the fingerprint without the sort
ChecksumUnsorted(domains) == Sha256(Join(domains))

\* store.py:19 and store.py:53
Checksum(domains) == Sha256(Join(Sorted(domains)))

\* json.dumps of a list of strings, and json.loads of it
JsonDumps(domains) == <<"json", domains>>
JsonLoads(text) == text[2]

(***************************************************************************)
(* Time                                                                    *)
(***************************************************************************)
DayTicks == 86400 * TicksPerSec
SepT == 84          \* 'T', the separator of datetime.isoformat()
SepSpace == 32      \* ' ', the separator of SQLite's datetime()

Days(n) == n * DayTicks
Hours(n) == n * 3600 * TicksPerSec

\* datetime.isoformat() of the naive time t: date, 'T', time of day in whole
\* seconds, and the fraction when it is not zero
IsoFormat(t) ==
    <<t \div DayTicks, SepT, (t % DayTicks) \div TicksPerSec>>
        \o (IF t % TicksPerSec = 0 THEN <<>> ELSE <<t % TicksPerSec>>)

\* SQLite's datetime("now", "+<days> days"): UTC, date, ' ', whole seconds
SqliteDatetime(utc, days) ==
    <<(utc + Days(days)) \div DayTicks, SepSpace,
      ((utc + Days(days)) % DayTicks) \div TicksPerSec>>

\* the instant an isoformat text names
ParseIso(text) ==
    text[1] * DayTicks + text[3] * TicksPerSec + (IF Len(text) > 3 THEN text[4] ELSE 0)

\* datetime.datetime.now(): naive local time
LocalNow(utc, offset) == utc + offset

(***************************************************************************)
(* CertsStore                                                              *)
(***************************************************************************)
CACHE_MISS == "MISS"
CACHE_HIT == "HIT"

Providers == {"certbot", "openssl"}

\* a row whose fingerprint is taken without the sort
RowUnsorted(name, provider, domains, expiry_date) ==
    [name |-> name, provider |-> provider, domains |-> JsonDumps(domains),
     expiry_date |-> expiry_date, checksum |-> ChecksumUnsorted(domains)]

\* the values replace() binds, lines 19-25
Row(name, provider, domains, expiry_date) ==
    [name |-> name, provider |-> provider, domains |-> JsonDumps(domains),
     expiry_date |-> expiry_date, checksum |-> Checksum(domains)]

\* REPLACE INTO certs
Replace(db, name, provider, domains, expiry_date) ==
    [n \in DOMAIN db \cup {name} |->
        IF n = name THEN Row(name, provider, domains, expiry_date) ELSE db[n]]

\* a remove() that leaves the row in place
RemoveNothing(db, name) == db

\* DELETE FROM certs WHERE name = ?
Remove(db, name) == [n \in DOMAIN db \ {name} |-> db[n]]

\* an update() written as a REPLACE INTO of the expiry alone
UpdateByReplace(db, name, expiry_date) ==
    IF name \in DOMAIN db
    THEN Replace(db, name, db[name].provider, <<>>, expiry_date)
    ELSE db

\* UPDATE certs SET expiry_date = ? WHERE name = ?
Update(db, name, expiry_date) ==
    [n \in DOMAIN db |->
        IF n = name THEN [db[n] EXCEPT !.expiry_date = expiry_date] ELSE db[n]]

\* a check() that forgets to sort the members it is given
CheckUnsortedMembers(db, name, members) ==
    IF name \notin DOMAIN db THEN CACHE_MISS
    ELSE IF db[name].checksum = ChecksumUnsorted(members) THEN CACHE_HIT
    ELSE CACHE_MISS

\* a check() that looks for the record only
CheckNameOnly(db, name, members) ==
    IF name \notin DOMAIN db THEN CACHE_MISS ELSE CACHE_HIT

Check(db, name, members) ==
    IF name \notin DOMAIN db THEN CACHE_MISS
    ELSE IF db[name].checksum = Checksum(members) THEN CACHE_HIT
    ELSE CACHE_MISS

\* SELECT * FROM certs
GetAll(db) == db

\* SELECT * FROM certs WHERE expiry_date < datetime("now", "+<days> days")
GetDueCerts(db, utc, days) ==
    LET due == {n \in DOMAIN db : SeqLess(db[n].expiry_date, SqliteDatetime(utc, days))}
    IN [n \in due |-> db[n]]

(***************************************************************************)
(* Providers                                                               *)
(***************************************************************************)
CertLifetime == 90      \* CertbotProvider._cert_lifetime
DefaultDays == 365      \* OpenSslProvider: config.get('days', 365)
RenewWindow == 30       \* get_due_certs(30)

\* what `certbot plugins --authenticators` lists when the provider is
\* constructed: the built-in plugins and those pip has installed
AvailableAuthenticators(inst) ==
    {"webroot", "standalone"} \cup {a \in {"dns-cloudflare"} : <<"certbot-", a>> \in inst}

\* the keys of a parsed section
Keys(section) == {"provider", "domains"} \cup DOMAIN section.opts

\* config_check and the first lines of generate_cert: the keys that must be there
RequiredKeys(provider) ==
    IF provider = "certbot" THEN {"authenticator", "email", "domains"} ELSE {"domains"}

ConfigCheckFails(provider, section) == ~(RequiredKeys(provider) \subseteq Keys(section))

\* get_required_packages
RequiredPackages(provider, section, inst) ==
    IF provider = "certbot"
       /\ section.opts["authenticator"] \notin AvailableAuthenticators(inst)
    THEN {<<"certbot-", section.opts["authenticator"]>>}
    ELSE {}

\* the lifetime generate_cert returns
Lifetime(provider, section) ==
    IF provider = "certbot" THEN CertLifetime
    ELSE IF "days" \in DOMAIN section.opts THEN section.opts["days"]
    ELSE DefaultDays

\* what a successful generate_cert leaves on the provider's disk
Issue(iss, provider, name, section) ==
    [k \in DOMAIN iss \cup {<<provider, name>>} |->
        IF k = <<provider, name>>
        THEN [domains |-> section.domains, days |-> Lifetime(provider, section)]
        ELSE iss[k]]

\* a revoke that leaves the renewal config where it is
KeepRenewalConfig(iss, provider, name) == iss

\* what a successful revoke_cert leaves
Unissue(iss, provider, name) == [k \in DOMAIN iss \ {<<provider, name>>} |-> iss[k]]

\* renew_cert and certbot's revoke need the artifacts of an earlier issuance;
\* OpenSslProvider.revoke_cert does not
HasArtifacts(iss, provider, name) == <<provider, name>> \in DOMAIN iss

\* what a provider call gives back: the disk, and the lifetime or the error
Returned(iss, lifetime) == [iss |-> iss, raised |-> FALSE, error |-> "", lifetime |-> lifetime]
Raised(iss, error) == [iss |-> iss, raised |-> TRUE, error |-> error, lifetime |-> 0]

\* OpenSslProvider.generate_cert: the openssl command, then the renewal config
OpenSslGenerate(iss, name, section, ok) ==
    IF ok THEN Returned(Issue(iss, "openssl", name, section), Lifetime("openssl", section))
    ELSE Raised(iss, "openssl command failed")

\* the renewal config read back: the config renew_cert hands to generate_cert
RenewalData(iss, name) ==
    [provider |-> "openssl",
     domains |-> iss[<<"openssl", name>>].domains,
     opts |-> [k \in {"days"} |-> iss[<<"openssl", name>>].days]]

\* OpenSslProvider.renew_cert
OpenSslRenew(iss, name, ok) ==
    IF ~HasArtifacts(iss, "openssl", name) THEN Raised(iss, "No renewal config found")
    ELSE OpenSslGenerate(iss, name, RenewalData(iss, name), ok)

\* OpenSslProvider.revoke_cert
OpenSslRevoke(iss, name) == Returned(Unissue(iss, "openssl", name), 0)

(***************************************************************************)
(* UsCertManager: the lifecycle actions                                    *)
(***************************************************************************)
\* which step of a lifecycle action fails, if any: the provider's external
\* command, the store's statement, or the hook's run-parts
Outcomes == {"ok", "provider", "store", "hook"}

Ev(op, name, ok) == [op |-> op, name |-> name, ok |-> ok]

Result(db, iss, ev, raised) == [db |-> db, iss |-> iss, ev |-> ev, raised |-> raised]

\* a generate that writes its record whether or not the provider issued
GenerateCertAnyway(db, iss, name, provider, section, t, outcome) ==
    LET expiry == IsoFormat(t + Days(Lifetime(provider, section)))
        iss2 == Issue(iss, provider, name, section)
    IN IF outcome = "provider"
       THEN Result(Replace(db, name, provider, section.domains, expiry), iss,
                   <<Ev("generate", name, FALSE)>>, TRUE)
       ELSE IF outcome = "store"
            THEN Result(db, iss2,
                        <<Ev("generate", name, TRUE), Ev("replace", name, FALSE)>>, TRUE)
            ELSE Result(Replace(db, name, provider, section.domains, expiry), iss2,
                        <<Ev("generate", name, TRUE), Ev("replace", name, TRUE),
                          Ev("post_cert_gen", name, outcome # "hook")>>,
                        outcome = "hook")

\* a generate that takes its record back when the hook fails
GenerateCertRollback(db, iss, name, provider, section, t, outcome) ==
    IF outcome = "provider"
    THEN Result(db, iss, <<Ev("generate", name, FALSE)>>, TRUE)
    ELSE LET expiry == IsoFormat(t + Days(Lifetime(provider, section)))
             iss2 == Issue(iss, provider, name, section)
         IN IF outcome = "store"
            THEN Result(db, iss2,
                        <<Ev("generate", name, TRUE), Ev("replace", name, FALSE)>>, TRUE)
            ELSE Result(IF outcome = "hook" THEN db
                        ELSE Replace(db, name, provider, section.domains, expiry), iss2,
                        <<Ev("generate", name, TRUE), Ev("replace", name, TRUE),
                          Ev("post_cert_gen", name, outcome # "hook")>>,
                        outcome = "hook")

\* _generate_cert(name, provider, config) at local time t
GenerateCert(db, iss, name, provider, section, t, outcome) ==
    IF outcome = "provider"
    THEN Result(db, iss, <<Ev("generate", name, FALSE)>>, TRUE)
    ELSE LET expiry == IsoFormat(t + Days(Lifetime(provider, section)))
             iss2 == Issue(iss, provider, name, section)
         IN IF outcome = "store"
            THEN Result(db, iss2,
                        <<Ev("generate", name, TRUE), Ev("replace", name, FALSE)>>, TRUE)
            ELSE Result(Replace(db, name, provider, section.domains, expiry), iss2,
                        <<Ev("generate", name, TRUE), Ev("replace", name, TRUE),
                          Ev("post_cert_gen", name, outcome # "hook")>>,
                        outcome = "hook")

\* a renew that writes a new expiry whether or not the provider renewed
RenewCertBlind(db, iss, name, provider, t, outcome) ==
    IF outcome = "provider" \/ ~HasArtifacts(iss, provider, name)
    THEN Result(Update(db, name, IsoFormat(t + Days(CertLifetime))), iss,
                <<Ev("renew", name, FALSE)>>, TRUE)
    ELSE LET expiry == IsoFormat(t + Days(iss[<<provider, name>>].days))
         IN IF outcome = "store"
            THEN Result(db, iss,
                        <<Ev("renew", name, TRUE), Ev("update", name, FALSE)>>, TRUE)
            ELSE Result(Update(db, name, expiry), iss,
                        <<Ev("renew", name, TRUE), Ev("update", name, TRUE),
                          Ev("post_cert_gen", name, outcome # "hook")>>,
                        outcome = "hook")

\* _renew_cert(name, provider) at local time t
RenewCert(db, iss, name, provider, t, outcome) ==
    IF outcome = "provider" \/ ~HasArtifacts(iss, provider, name)
    THEN Result(db, iss, <<Ev("renew", name, FALSE)>>, TRUE)
    ELSE LET expiry == IsoFormat(t + Days(iss[<<provider, name>>].days))
         IN IF outcome = "store"
            THEN Result(db, iss,
                        <<Ev("renew", name, TRUE), Ev("update", name, FALSE)>>, TRUE)
            ELSE Result(Update(db, name, expiry), iss,
                        <<Ev("renew", name, TRUE), Ev("update", name, TRUE),
                          Ev("post_cert_gen", name, outcome # "hook")>>,
                        outcome = "hook")

\* a revoke that removes the record whether or not the provider revoked
RevokeCertAlways(db, iss, name, provider, outcome) ==
    IF outcome = "provider" \/ (provider = "certbot" /\ ~HasArtifacts(iss, provider, name))
    THEN Result(Remove(db, name), iss, <<Ev("revoke", name, FALSE)>>, TRUE)
    ELSE LET iss2 == Unissue(iss, provider, name)
         IN IF outcome = "store"
            THEN Result(db, iss2,
                        <<Ev("revoke", name, TRUE), Ev("remove", name, FALSE)>>, TRUE)
            ELSE Result(Remove(db, name), iss2,
                        <<Ev("revoke", name, TRUE), Ev("remove", name, TRUE),
                          Ev("post_cert_revoke", name, outcome # "hook")>>,
                        outcome = "hook")

\* a revoke that runs the hook before it removes the record
RevokeCertHookFirst(db, iss, name, provider, outcome) ==
    IF outcome = "provider" \/ (provider = "certbot" /\ ~HasArtifacts(iss, provider, name))
    THEN Result(db, iss, <<Ev("revoke", name, FALSE)>>, TRUE)
    ELSE Result(Remove(db, name), Unissue(iss, provider, name),
                <<Ev("revoke", name, TRUE), Ev("post_cert_revoke", name, TRUE),
                  Ev("remove", name, TRUE)>>, FALSE)

\* _revoke_cert(name, provider)
RevokeCert(db, iss, name, provider, outcome) ==
    IF outcome = "provider" \/ (provider = "certbot" /\ ~HasArtifacts(iss, provider, name))
    THEN Result(db, iss, <<Ev("revoke", name, FALSE)>>, TRUE)
    ELSE LET iss2 == Unissue(iss, provider, name)
         IN IF outcome = "store"
            THEN Result(db, iss2,
                        <<Ev("revoke", name, TRUE), Ev("remove", name, FALSE)>>, TRUE)
            ELSE Result(Remove(db, name), iss2,
                        <<Ev("revoke", name, TRUE), Ev("remove", name, TRUE),
                          Ev("post_cert_revoke", name, outcome # "hook")>>,
                        outcome = "hook")

\* a renew pass without its try/except
UncaughtRenew(raised, next) == IF raised THEN "crashed" ELSE next

\* a pass without its try/except: a raised exception leaves the pass
Uncaught(raised, next) == IF raised THEN "crashed" ELSE next

\* _sync_certs, lines 156-159: except Exception: log it; the loop goes on
CaughtRevoke(raised, next) == next

\* _sync_certs, lines 168-171
CaughtGenerate(raised, next) == next

\* _renew_certs, lines 185-188
CaughtRenew(raised, next) == next

\* a config check that lets every section pass
ConfigCheckLenient(section) == "pass"

\* one iteration of _config_check
ConfigCheck(section) ==
    IF section.provider \notin Providers THEN "raise"
    ELSE IF ConfigCheckFails(section.provider, section) THEN "raise"
    ELSE "pass"

\* the packages _ensure_packages collects
PackagesNeeded(cfg, inst) ==
    UNION {RequiredPackages(cfg[n].provider, cfg[n], inst) : n \in DOMAIN cfg}

\* the rows a loop has still to visit once it has visited name
Rest(rows, name) == [n \in DOMAIN rows \ {name} |-> rows[n]]

\* a task that does not wait for the thread it starts
ToThreadDetached(running) == "idle"

\* _renew_certs_task, line 295: await asyncio.to_thread(self._renew_certs); the
\* task is where it waits while the thread runs, and at its sleep afterwards
ToThread(running) == IF running THEN "renewing" ELSE "idle"

\* a process that ends without waiting for its worker threads
ExitAtOnce(running) == "stopped"

\* _run_forever, lines 260-268, and sys.exit(0): the task is cancelled, the
\* thread is not; the interpreter joins the executor's threads before it ends
Exit(running) == IF running > 0 THEN "shutting_down" ELSE "stopped"

\* a trigger that is always 02:00 of the current day
NextRunNoRollover(t) == (t \div DayTicks) * DayTicks + Hours(2)

\* _renew_certs_task, lines 298-302: 02:00 of the day of local time t, and of
\* the day after when t is past it
NextRun(t) ==
    LET today == (t \div DayTicks) * DayTicks + Hours(2)
    IN IF t > today THEN today + DayTicks ELSE today

\* _renew_certs_task, line 304: the seconds to sleep at local time t; .seconds
\* is the seconds field of the timedelta, which leaves out its days and its
\* microseconds
SleepTime(t) == ((NextRun(t) - t) \div TicksPerSec) % 86400

(***************************************************************************)
(* The configurations and the stores drawn                                 *)
(***************************************************************************)
NoOpts == [k \in {} |-> 0]

CertbotOpts(authenticator) ==
    [k \in {"authenticator", "email"} |->
        IF k = "authenticator" THEN authenticator ELSE "ops@example"]

DaysOpts(days) == [k \in {"days"} |-> days]

Section(provider, domains, opts) == [provider |-> provider, domains |-> domains, opts |-> opts]

\* sections whose certificate a provider can have issued
StoredSections ==
    { Section("certbot", <<<<1>>, <<2>>>>, CertbotOpts("webroot")),
      Section("openssl", <<<<2>>, <<1>>>>, NoOpts),
      Section("openssl", <<<<1>>>>, DaysOpts(RenewWindow)) }

GroupConfigs ==
    StoredSections \cup
    { Section("certbot", <<<<1, 2>>>>, CertbotOpts("dns-cloudflare")),
      Section("certbot", <<<<1>>>>, NoOpts),
      Section("nosuch", <<<<1>>>>, NoOpts) }

Configs == UNION {[S -> GroupConfigs] : S \in SUBSET Names \ {{}}}

\* a section as ConfigParser reads it: option -> text, the domains on one line
RawSection(section, sep) ==
    [k \in {"provider", "domains"} \cup DOMAIN section.opts |->
        IF k = "provider" THEN section.provider
        ELSE IF k = "domains" THEN JoinWith(section.domains, sep)
        ELSE section.opts[k]]

Without(raw, key) == [k \in DOMAIN raw \ {key} |-> raw[k]]

\* the sections of the *.conf files: the domains split by "," or by ", ", and
\* sections that lack a required option
RawSections ==
    {RawSection(g, <<Comma>>) : g \in GroupConfigs}
    \cup {RawSection(g, <<Comma, Blank>>) : g \in StoredSections}
    \cup {Without(RawSection(g, <<Comma>>), k) :
            g \in {Section("openssl", <<<<1>>>>, NoOpts)}, k \in {"provider", "domains"}}

\* the files may hold no section at all
RawConfigs == UNION {[S -> RawSections] : S \in SUBSET Names}

\* --config-dir: empty, or a directory
ConfigDirs == {"", "/config"}

\* _parse_config, lines 76-83: one section
ParseSection(raw) ==
    LET pieces == Split(raw["domains"])
    IN Section(raw["provider"],
               [i \in 1..Len(pieces) |-> Strip(pieces[i])],
               [k \in DOMAIN raw \ {"provider", "domains"} |-> raw[k]])

\* _parse_config: the config, or the UsCertManagerConfigError it raises
ParseConfig(config_dir, raw) ==
    IF config_dir = "" THEN [ok |-> FALSE, error |-> "No config directory specified"]
    ELSE IF DOMAIN raw = {} THEN [ok |-> FALSE, error |-> "No config found"]
    ELSE IF \E n \in DOMAIN raw : ~({"provider", "domains"} \subseteq DOMAIN raw[n])
    THEN [ok |-> FALSE, error |-> "missing required option"]
    ELSE [ok |-> TRUE, config |-> [n \in DOMAIN raw |-> ParseSection(raw[n])]]

\* earlier issuances, each with the days gone by since: a certbot certificate
\* 70 days old and an openssl one of 30 days are due, a fresh openssl one is not
PriorIssues ==
    { <<Section("certbot", <<<<1>>, <<2>>>>, CertbotOpts("webroot")), 70>>,
      <<Section("openssl", <<<<2>>, <<1>>>>, NoOpts), 1>>,
      <<Section("openssl", <<<<1>>>>, DaysOpts(RenewWindow)), 1>> }

StartDay == 100
StartTimes == {Days(StartDay) + Hours(12), Days(StartDay) + Hours(2) - 1}
\* UTC, and a zone one hour ahead of it
TzOffsets == {0, Hours(1)}

Priors == UNION {[S -> PriorIssues] : S \in SUBSET Names}

\* the store and the providers' disks left by earlier runs that issued `prior`
PriorStore(prior, utc, offset) ==
    [n \in DOMAIN prior |->
        Row(n, prior[n][1].provider, prior[n][1].domains,
            IsoFormat(LocalNow(utc - Days(prior[n][2]), offset)
                      + Days(Lifetime(prior[n][1].provider, prior[n][1]))))]

PriorIssued(prior) ==
    [k \in {<<prior[n][1].provider, n>> : n \in DOMAIN prior} |->
        [domains |-> prior[k[2]][1].domains,
         days |-> Lifetime(k[1], prior[k[2]][1])]]

NoRows == [n \in {} |-> 0]

(***************************************************************************)
(* The process                                                             *)
(***************************************************************************)
Init ==
    /\ now \in StartTimes
    /\ tz = 0
    /\ config \in Configs
    /\ \E prior \in Priors :
        /\ store = PriorStore(prior, now, tz)
        /\ issued = PriorIssued(prior)
    /\ lastPut = NoRows
    /\ pc = "start"
    /\ todo = {}
    /\ certs = NoRows
    /\ log = <<>>
    /\ passStore = store
    /\ syncFailed = {}
    /\ prevSync = [done |-> FALSE, failed |-> {}]
    /\ installed = {}
    /\ runs = 1
    /\ passes = 0
    /\ faults = 0
    /\ inflight = 0

\* run(), line 39
Run ==
    /\ pc = "start"
    /\ pc' = "config_check"
    /\ todo' = DOMAIN config
    /\ log' = <<>>
    /\ passStore' = store
    /\ syncFailed' = {}
    /\ passes' = 0
    /\ UNCHANGED <<store, lastPut, now, tz, config, certs, prevSync, installed, runs, issued,
                   faults, inflight>>

\* _config_check: one section
ConfigCheckStep ==
    /\ pc = "config_check"
    /\ \E n \in todo :
        IF ConfigCheck(config[n]) = "raise"
        THEN /\ pc' = "aborted"
             /\ todo' = todo
        ELSE /\ todo' = todo \ {n}
             /\ pc' = IF todo' = {} THEN "packages" ELSE "config_check"
    /\ UNCHANGED <<store, lastPut, now, tz, config, certs, log, passStore, syncFailed,
                   prevSync, installed, runs, passes, issued, faults, inflight>>

\* _ensure_packages: pip installs what the providers ask for; a failing pip
\* raises out of run()
EnsurePackages ==
    /\ pc = "packages"
    /\ LET needed == PackagesNeeded(config, installed)
       IN \E ok \in BOOLEAN :
            /\ needed = {} => ok
            /\ ~ok => faults < MaxFaults
            /\ faults' = IF ok THEN faults ELSE faults + 1
            /\ installed' = IF ok THEN installed \cup needed ELSE installed
            /\ log' = IF needed = {} THEN log ELSE log \o <<Ev("install", "", ok)>>
            /\ pc' = IF ok THEN "sync_start" ELSE "crashed"
    /\ UNCHANGED <<store, lastPut, now, tz, config, todo, certs, passStore, syncFailed,
                   prevSync, runs, passes, issued, inflight>>

\* _sync_certs, line 148
SyncBegin ==
    /\ pc = "sync_start"
    /\ \E ok \in BOOLEAN :
        IF ok
        THEN /\ certs' = GetAll(store)
             /\ pc' = IF DOMAIN store = {} THEN "sync" ELSE "prune"
             /\ todo' = IF DOMAIN store = {} THEN DOMAIN config ELSE {}
             /\ log' = log
             /\ faults' = faults
        ELSE /\ faults < MaxFaults
             /\ faults' = faults + 1
             /\ pc' = "crashed"
             /\ log' = log \o <<Ev("get_all", "", FALSE)>>
             /\ UNCHANGED <<certs, todo>>
    /\ passStore' = store
    /\ UNCHANGED <<store, lastPut, now, tz, config, syncFailed, prevSync, installed,
                   runs, passes, issued, inflight>>

\* a prune that revokes every stored row, configured or not
PruneStepAll ==
    /\ pc = "prune"
    /\ \E n \in DOMAIN certs, o \in Outcomes :
        LET r == RevokeCert(store, issued, n, certs[n].provider, o)
            rest == Rest(certs, n)
        IN /\ o # "ok" => faults < MaxFaults
           /\ faults' = IF o = "ok" THEN faults ELSE faults + 1
           /\ store' = r.db
           /\ issued' = r.iss
           /\ log' = log \o r.ev
           /\ syncFailed' = IF r.raised THEN syncFailed \cup {n} ELSE syncFailed
           /\ certs' = rest
           /\ pc' = CaughtRevoke(r.raised, IF DOMAIN rest = {} THEN "sync" ELSE "prune")
           /\ todo' = IF pc' = "sync" THEN DOMAIN config ELSE {}
    /\ UNCHANGED <<lastPut, now, tz, config, passStore, prevSync, installed, runs, passes,
                   inflight>>

\* _sync_certs, lines 151-159: one stored row
PruneStep ==
    /\ pc = "prune"
    /\ \E n \in DOMAIN certs, o \in Outcomes :
        LET r == IF n \notin DOMAIN config
                 THEN RevokeCert(store, issued, n, certs[n].provider, o)
                 ELSE Result(store, issued, <<>>, FALSE)
            rest == Rest(certs, n)
        IN /\ n \in DOMAIN config => o = "ok"
           /\ o # "ok" => faults < MaxFaults
           /\ faults' = IF o = "ok" THEN faults ELSE faults + 1
           /\ store' = r.db
           /\ issued' = r.iss
           /\ log' = log \o r.ev
           /\ syncFailed' = IF r.raised THEN syncFailed \cup {n} ELSE syncFailed
           /\ certs' = rest
           /\ pc' = CaughtRevoke(r.raised, IF DOMAIN rest = {} THEN "sync" ELSE "prune")
           /\ todo' = IF pc' = "sync" THEN DOMAIN config ELSE {}
    /\ UNCHANGED <<lastPut, now, tz, config, passStore, prevSync, installed, runs, passes,
                   inflight>>

\* _sync_certs, lines 162-173: one configured group
SyncStep ==
    /\ pc = "sync"
    /\ \E n \in todo, o \in Outcomes \cup {"read"} :
        LET miss == Check(store, n, config[n].domains) = CACHE_MISS
            r == IF o = "read"
                 THEN Result(store, issued, <<Ev("check", n, FALSE)>>, TRUE)
                 ELSE IF miss
                 THEN GenerateCert(store, issued, n, config[n].provider, config[n],
                                   LocalNow(now, tz), o)
                 ELSE Result(store, issued, <<>>, FALSE)
            rest == todo \ {n}
            next == IF rest = {} THEN "renew_start" ELSE "sync"
        IN /\ ~miss => o \in {"ok", "read"}
           /\ o # "ok" => faults < MaxFaults
           /\ faults' = IF o = "ok" THEN faults ELSE faults + 1
           /\ store' = r.db
           /\ issued' = r.iss
           /\ log' = log \o r.ev
           /\ syncFailed' = IF r.raised THEN syncFailed \cup {n} ELSE syncFailed
           /\ todo' = rest
           /\ pc' = IF o = "read" THEN "crashed" ELSE CaughtGenerate(r.raised, next)
    /\ UNCHANGED <<lastPut, now, tz, config, certs, passStore, prevSync, installed,
                   runs, passes, inflight>>

\* _renew_certs_task, line 295, and _renew_certs, line 176: the query runs on
\* the worker thread and is outside the try of the loop, so what it raises
\* (sqlite3 refusing a connection made on another thread, a locked database)
\* ends the task and with it the daemon
RenewBegin ==
    /\ pc \in {"renew_start", "triggered"}
    /\ passes < MaxPasses
    /\ passes' = passes + 1
    /\ passStore' = store
    /\ \E ok \in BOOLEAN :
        IF ok
        THEN /\ certs' = GetDueCerts(store, now, RenewWindow)
             /\ log' = <<>>
             /\ pc' = ToThread(DOMAIN certs' # {})
             /\ inflight' = IF DOMAIN certs' = {} THEN inflight ELSE inflight + 1
             /\ faults' = faults
        ELSE /\ faults < MaxFaults
             /\ faults' = faults + 1
             /\ certs' = NoRows
             /\ log' = <<Ev("get_due_certs", "", FALSE)>>
             /\ pc' = "stopped"
             /\ inflight' = inflight
    /\ UNCHANGED <<store, lastPut, now, tz, config, todo, syncFailed, prevSync, installed,
                   runs, issued>>

\* _renew_certs, lines 179-188: one due row; the worker thread goes through its
\* rows whether or not the task that awaits it has been cancelled
RenewStep ==
    /\ pc \in {"renewing", "shutting_down"}
    /\ \E n \in DOMAIN certs, o \in Outcomes :
        LET r == RenewCert(store, issued, n, certs[n].provider, LocalNow(now, tz), o)
            rest == Rest(certs, n)
        IN /\ o # "ok" => faults < MaxFaults
           /\ faults' = IF o = "ok" THEN faults ELSE faults + 1
           /\ store' = r.db
           /\ issued' = r.iss
           /\ log' = log \o r.ev
           /\ certs' = rest
           /\ inflight' = IF DOMAIN rest = {} THEN inflight - 1 ELSE inflight
           /\ pc' = CaughtRenew(r.raised,
                                IF DOMAIN rest # {} THEN pc
                                ELSE IF pc = "renewing" THEN "idle" ELSE "stopped")
    /\ UNCHANGED <<lastPut, now, tz, config, todo, passStore, syncFailed, prevSync,
                   installed, runs, passes>>

\* _renew_certs_task, lines 298-308
Sleep ==
    /\ pc = "idle"
    /\ now' = now + SleepTime(LocalNow(now, tz)) * TicksPerSec
    /\ pc' = "triggered"
    /\ UNCHANGED <<store, lastPut, tz, config, todo, certs, log, passStore, syncFailed,
                   prevSync, installed, runs, passes, issued, faults, inflight>>

\* _run_forever, lines 256-268: a termination signal while the task sleeps or
\* awaits the worker thread
Shutdown ==
    /\ pc \in {"idle", "renewing"}
    /\ pc' = Exit(inflight)
    /\ UNCHANGED <<store, lastPut, now, tz, config, todo, certs, log, passStore,
                   syncFailed, prevSync, installed, runs, passes, issued, faults, inflight>>

\* the operator starts the process again, on the same configuration files
Restart ==
    /\ pc \in {"stopped", "aborted", "crashed"}
    /\ runs < MaxRuns
    /\ runs' = runs + 1
    /\ prevSync' = [done |-> pc = "stopped", failed |-> syncFailed]
    /\ pc' = "start"
    /\ todo' = {}
    /\ certs' = NoRows
    /\ log' = <<>>
    /\ passStore' = store
    /\ syncFailed' = {}
    /\ passes' = 0
    /\ UNCHANGED <<store, lastPut, now, tz, config, installed, issued, faults, inflight>>

\* main(), lines 21-33: the manager is constructed from the files of the config
\* directory; a UsCertManagerConfigError raised there is caught
Main ==
    /\ pc = "main"
    /\ \E dir \in ConfigDirs, raw \in RawConfigs :
        LET r == ParseConfig(dir, raw)
        IN IF r.ok
           THEN /\ config' = r.config
                /\ pc' = "start"
                /\ log' = <<>>
           ELSE /\ config' = NoRows
                /\ pc' = "config_error"
                /\ log' = <<Ev("parse_config", r.error, FALSE)>>
    /\ UNCHANGED <<store, lastPut, now, tz, todo, certs, passStore, syncFailed, prevSync,
                   installed, runs, passes, issued, faults, inflight>>

\* how main() ends: sys.exit(2) at line 33, sys.exit(0) at line 37, and the
\* interpreter's status 1 for an exception nothing catches; -1 while it runs
ExitCode ==
    IF pc = "config_error" THEN 2
    ELSE IF pc = "stopped" THEN 0
    ELSE IF pc \in {"aborted", "crashed"} THEN 1
    ELSE 0 - 1

Daemon ==
    \/ Run
    \/ ConfigCheckStep
    \/ EnsurePackages
    \/ SyncBegin
    \/ PruneStep
    \/ SyncStep
    \/ RenewBegin
    \/ RenewStep
    \/ Sleep

Next ==
    \/ Daemon
    \/ Shutdown
    \/ Restart

Spec == Init /\ [][Next]_vars

\* the process takes its next step whenever it has one; signals and restarts
\* come from outside and need not come
FairSpec == Init /\ [][Next]_vars /\ WF_vars(Daemon)

\* the process from main() on: the config is still to be read
InitMain ==
    /\ now \in StartTimes
    /\ tz = 0
    /\ config = NoRows
    /\ \E prior \in Priors :
        /\ store = PriorStore(prior, now, tz)
        /\ issued = PriorIssued(prior)
    /\ lastPut = NoRows
    /\ pc = "main"
    /\ todo = {}
    /\ certs = NoRows
    /\ log = <<>>
    /\ passStore = store
    /\ syncFailed = {}
    /\ prevSync = [done |-> FALSE, failed |-> {}]
    /\ installed = {}
    /\ runs = 1
    /\ passes = 0
    /\ faults = 0
    /\ inflight = 0

NextMain ==
    \/ Main
    \/ Next

MainSpec == InitMain /\ [][NextMain]_vars

(***************************************************************************)
(* CertsStore called directly: any sequence of replace, update and remove  *)
(***************************************************************************)
ApiTime == Days(StartDay) + Hours(12)

\* the expiry text handed to replace(), and those handed to update()
PutExpiry == IsoFormat(ApiTime + Days(RenewWindow))
ApiExpiries == {PutExpiry, IsoFormat(ApiTime + Days(CertLifetime))}

ApiIdle ==
    /\ config = NoRows
    /\ todo = {}
    /\ certs = NoRows
    /\ passStore = NoRows
    /\ syncFailed = {}
    /\ prevSync = [done |-> FALSE, failed |-> {}]
    /\ installed = {}
    /\ runs = 0
    /\ passes = 0
    /\ issued = NoRows
    /\ faults = 0
    /\ inflight = 0

ApiFrame == UNCHANGED <<now, tz, config, pc, todo, certs, passStore, syncFailed, prevSync,
                        installed, runs, passes, issued, faults, inflight>>

InitStore ==
    /\ store = NoRows
    /\ lastPut = NoRows
    /\ now = ApiTime
    /\ tz = 0
    /\ pc = "api"
    /\ log = <<>>
    /\ ApiIdle

\* CertsStore.replace; log holds the last call
ApiReplace ==
    /\ pc = "api"
    /\ \E n \in Names, d \in DomainLists :
        /\ store' = Replace(store, n, "certbot", d, PutExpiry)
        /\ lastPut' = [m \in DOMAIN lastPut \cup {n} |-> IF m = n THEN d ELSE lastPut[m]]
        /\ log' = <<Ev("replace", n, TRUE)>>
    /\ ApiFrame

\* CertsStore.update
ApiUpdate ==
    /\ pc = "api"
    /\ \E n \in Names, e \in ApiExpiries :
        /\ store' = Update(store, n, e)
        /\ log' = <<Ev("update", n, n \in DOMAIN store /\ store[n].expiry_date # e)>>
    /\ lastPut' = lastPut
    /\ ApiFrame

\* CertsStore.remove
ApiRemove ==
    /\ pc = "api"
    /\ \E n \in Names :
        /\ store' = Remove(store, n)
        /\ lastPut' = [m \in DOMAIN lastPut \ {n} |-> lastPut[m]]
        /\ log' = <<Ev("remove", n, n \in DOMAIN store)>>
    /\ ApiFrame

NextStore ==
    \/ ApiReplace
    \/ ApiUpdate
    \/ ApiRemove

StoreSpec == InitStore /\ [][NextStore]_vars

(***************************************************************************)
(* OpenSslProvider called directly: any sequence of generate_cert,         *)
(* renew_cert and revoke_cert; lastPut holds, for each name, the config of *)
(* the last generate_cert that returned and no revoke_cert has followed    *)
(***************************************************************************)
OpenSslSections ==
    {g \in GroupConfigs : g.provider = "openssl"}
    \cup {Section("openssl", <<<<1>>>>, NoOpts),
          Section("openssl", <<<<2>>, <<1>>>>, DaysOpts(CertLifetime))}

ProviderFrame == UNCHANGED <<store, now, tz, config, pc, todo, certs, passStore, syncFailed,
                             prevSync, installed, runs, passes, faults, inflight>>

InitProvider ==
    /\ store = NoRows
    /\ lastPut = NoRows
    /\ now = ApiTime
    /\ tz = 0
    /\ pc = "provider"
    /\ log = <<>>
    /\ ApiIdle

\* the last call and what it returned
Called(op, name, r, domains) ==
    [op |-> op, name |-> name, ok |-> ~r.raised, error |-> r.error,
     lifetime |-> r.lifetime, domains |-> domains]

ProviderGenerate ==
    /\ pc = "provider"
    /\ \E n \in Names, section \in OpenSslSections, ok \in BOOLEAN :
        LET r == OpenSslGenerate(issued, n, section, ok)
        IN /\ issued' = r.iss
           /\ lastPut' = IF r.raised THEN lastPut
                         ELSE [m \in DOMAIN lastPut \cup {n} |->
                                    IF m = n THEN section ELSE lastPut[m]]
           /\ log' = <<Called("generate", n, r, section.domains)>>
    /\ ProviderFrame

ProviderRenew ==
    /\ pc = "provider"
    /\ \E n \in Names, ok \in BOOLEAN :
        LET r == OpenSslRenew(issued, n, ok)
        IN /\ issued' = r.iss
           /\ log' = <<Called("renew", n, r,
                               IF HasArtifacts(issued, "openssl", n)
                               THEN RenewalData(issued, n).domains ELSE <<>>)>>
    /\ lastPut' = lastPut
    /\ ProviderFrame

ProviderRevoke ==
    /\ pc = "provider"
    /\ \E n \in Names :
        LET r == OpenSslRevoke(issued, n)
        IN /\ issued' = r.iss
           /\ lastPut' = [m \in DOMAIN lastPut \ {n} |-> lastPut[m]]
           /\ log' = <<Called("revoke", n, r, <<>>)>>
    /\ ProviderFrame

NextProvider ==
    \/ ProviderGenerate
    \/ ProviderRenew
    \/ ProviderRevoke

ProviderSpec == InitProvider /\ [][NextProvider]_vars

(***************************************************************************)
(* get_due_certs over records of any expiry, at any hour and in any zone   *)
(***************************************************************************)
\* UTC times of day the query runs at
DueTimes ==
    {Days(StartDay) + Hours(12), Days(StartDay) + Hours(2) - 1, Days(StartDay) + Hours(23)}

\* expiry minus the local time of the call that stores it
DueOffsets == {Days(RenewWindow - 1), Days(RenewWindow) - Hours(2), Days(RenewWindow + 1), 0 - Days(1)}

InitDue ==
    /\ store = NoRows
    /\ lastPut = NoRows
    /\ now \in DueTimes
    /\ tz \in TzOffsets
    /\ pc = "due"
    /\ log = <<>>
    /\ ApiIdle

\* _generate_cert, lines 196-199, with a lifetime that leaves `off` to go
DueReplace ==
    /\ pc = "due"
    /\ \E n \in Names, off \in DueOffsets :
        /\ store' = Replace(store, n, "openssl", <<<<1>>>>, IsoFormat(LocalNow(now, tz) + off))
        /\ log' = <<Ev("replace", n, TRUE)>>
    /\ lastPut' = lastPut
    /\ ApiFrame

\* _renew_cert, lines 207-210
DueUpdate ==
    /\ pc = "due"
    /\ \E n \in DOMAIN store, off \in DueOffsets :
        /\ store' = Update(store, n, IsoFormat(LocalNow(now, tz) + off))
        /\ log' = <<Ev("update", n, TRUE)>>
    /\ lastPut' = lastPut
    /\ ApiFrame

NextDue ==
    \/ DueReplace
    \/ DueUpdate

DueSpec == InitDue /\ [][NextDue]_vars

(***************************************************************************)
(* _renew_certs_task with renew passes that take time                      *)
(***************************************************************************)
\* UTC times at which the task starts: around 02:00, at midnight, at noon
ClockTimes ==
    {Days(StartDay) + Hours(2) - 1, Days(StartDay) + Hours(2), Days(StartDay) + Hours(2) + 1,
     Days(StartDay), Days(StartDay) + Hours(12), Days(StartDay) + Hours(24) - 1}

\* how long the awaited renew pass runs: no time, half a second or so, an hour,
\* more than a day
Durations == {0, 1, Hours(1), Hours(25)}

InitClock ==
    /\ store = NoRows
    /\ lastPut = NoRows
    /\ now \in ClockTimes
    /\ tz \in TzOffsets
    /\ pc = "await_pass"
    /\ log = <<>>
    /\ ApiIdle

ClockFrame == UNCHANGED <<store, lastPut, tz, config, todo, certs, passStore, syncFailed,
                          prevSync, installed, runs, issued, faults, inflight>>

\* _renew_certs_task, line 295: the task waits until the pass has returned
ClockPass ==
    /\ pc = "await_pass"
    /\ passes < MaxPasses
    /\ \E d \in Durations :
        /\ now' = now + d
        /\ log' = log \o <<[op |-> "pass", from |-> LocalNow(now, tz),
                             to |-> LocalNow(now', tz)]>>
    /\ passes' = passes + 1
    /\ pc' = "compute"
    /\ ClockFrame

\* _renew_certs_task, lines 298-308: the next trigger is computed from the time
\* read after the pass, and the task sleeps the whole seconds up to it
ClockSleep ==
    /\ pc = "compute"
    /\ LET t == LocalNow(now, tz)
       IN /\ log' = log \o <<[op |-> "sleep", at |-> t, next_run |-> NextRun(t),
                               seconds |-> SleepTime(t)]>>
          /\ now' = now + SleepTime(t) * TicksPerSec
    /\ pc' = "await_pass"
    /\ passes' = passes
    /\ ClockFrame

NextClock ==
    \/ ClockPass
    \/ ClockSleep

ClockSpec == InitClock /\ [][NextClock]_vars

(***************************************************************************)
(* Properties                                                              *)
(***************************************************************************)
SetOf(l) == {l[i] : i \in 1..Len(l)}

Occurrences(x, l) == Cardinality({i \in 1..Len(l) : l[i] = x})

\* p is a permutation of d
IsPerm(p, d) ==
    /\ Len(p) = Len(d)
    /\ \A x \in SetOf(p) \cup SetOf(d) : Occurrences(x, p) = Occurrences(x, d)

\* the calls of `op` for `name` in the log
Count(op, name) == Cardinality({i \in 1..Len(log) : log[i].op = op /\ log[i].name = name})

Logged(op, name, ok) == \E i \in 1..Len(log) : log[i] = Ev(op, name, ok)

\* the full-sync pass of this run has returned and no renew pass has begun
PassEnded == pc = "renew_start" /\ passes = 0

\* name has a record that carries the fingerprint of its configured domains
Fresh(name) ==
    /\ name \in DOMAIN config
    /\ name \in DOMAIN store
    /\ store[name].checksum = Checksum(config[name].domains)

SameRow(db1, db2, name) ==
    \/ name \notin DOMAIN db1 /\ name \notin DOMAIN db2
    \/ name \in DOMAIN db1 /\ name \in DOMAIN db2 /\ db1[name] = db2[name]

\* C1: after a full-sync pass in which no step failed, the store holds no record
\* whose name is absent from the config, every record present at the start whose
\* name is configured is still there, and post_cert_revoke ran exactly once for
\* each name removed and for no other name.
C1_PruneCorrect ==
    (PassEnded /\ syncFailed = {}) =>
        /\ DOMAIN store \subseteq DOMAIN config
        /\ \A n \in DOMAIN passStore \cap DOMAIN config : n \in DOMAIN store
        /\ \A n \in Names :
            Count("post_cert_revoke", n)
                = (IF n \in DOMAIN passStore \ DOMAIN config THEN 1 ELSE 0)

C1_Witness ==
    /\ PassEnded
    /\ syncFailed = {}
    /\ DOMAIN passStore = {"A", "B"}
    /\ DOMAIN config = {"A"}
    /\ DOMAIN store = {"A"}
    /\ Count("post_cert_revoke", "B") = 1

\* C2: from an empty store, a full-sync pass in which no step failed leaves one
\* record per configured group, with the configured provider and domains and
\* the fingerprint of those domains, and post_cert_gen ran once per group.
C2_SyncCorrect ==
    (PassEnded /\ syncFailed = {} /\ DOMAIN passStore = {}) =>
        /\ DOMAIN store = DOMAIN config
        /\ \A n \in DOMAIN config :
            /\ store[n].provider = config[n].provider
            /\ JsonLoads(store[n].domains) = config[n].domains
            /\ store[n].checksum = Checksum(config[n].domains)
            /\ Count("post_cert_gen", n) = 1

C2_Witness ==
    /\ PassEnded
    /\ syncFailed = {}
    /\ DOMAIN passStore = {}
    /\ DOMAIN config = {"A", "B"}
    /\ config["A"].domains = <<<<2>>, <<1>>>>
    /\ Count("post_cert_gen", "A") = 1

\* C3: when the previous run's full-sync pass completed with no failure and the
\* config is the same, the next full-sync pass calls no provider, mutates no
\* record and runs no hook, and leaves the store as it found it.
C3_Idempotent ==
    (PassEnded /\ runs > 1 /\ prevSync.done /\ prevSync.failed = {}) =>
        /\ \A i \in 1..Len(log) : log[i].op = "install"
        /\ store = passStore

\* the second pass follows a first one that generated A's certificate: no
\* earlier issuance of the model carries the domain list <<"ab">>
C3_Witness ==
    /\ PassEnded
    /\ runs > 1
    /\ prevSync.done
    /\ prevSync.failed = {}
    /\ "A" \in DOMAIN store
    /\ store["A"].checksum = Checksum(<<<<1, 2>>>>)
    /\ log = <<>>

\* C4: a failing generate for X does not leave the pass: the pass ends, X's
\* record is what it was (and check() answers as before), no post_cert_gen ran
\* for X, and every Y whose generate and replace succeeded has a record with
\* its new fingerprint and expiry.
C4_Isolation ==
    /\ (pc = "crashed" /\ log # <<>>) =>
            log[Len(log)].op \in {"install", "get_all", "check"}
    /\ PassEnded =>
        \A x \in DOMAIN config :
            /\ Logged("generate", x, FALSE) =>
                /\ SameRow(store, passStore, x)
                /\ Check(store, x, config[x].domains)
                        = Check(passStore, x, config[x].domains)
                /\ Count("post_cert_gen", x) = 0
            /\ (Logged("generate", x, TRUE) /\ Logged("replace", x, TRUE)) =>
                /\ x \in DOMAIN store
                /\ store[x].checksum = Checksum(config[x].domains)
                /\ store[x].expiry_date
                        = IsoFormat(LocalNow(now, tz)
                                    + Days(Lifetime(config[x].provider, config[x])))

\* X = A fails first, Y = B then succeeds
C4_Witness ==
    /\ PassEnded
    /\ Len(log) >= 3
    /\ log[1] = Ev("generate", "A", FALSE)
    /\ log[2] = Ev("generate", "B", TRUE)
    /\ log[3] = Ev("replace", "B", TRUE)
    /\ "A" \notin DOMAIN store
    /\ Fresh("B")

\* C5: after replace(name, D1), check(name, D2) is a miss for every domain list
\* D2 that is a different set of domains than D1.
C5_DriftDetected ==
    \A n \in DOMAIN lastPut : \A d2 \in DomainLists :
        SetOf(d2) # SetOf(lastPut[n]) => Check(store, n, d2) = CACHE_MISS

\* C6 as stated: check() answers Missing exactly when the name has no record,
\* and Fresh when the last replace() for the name used the same domain list.
C6_MissingIffNoRecord ==
    \A n \in Names : \A d \in DomainLists :
        /\ Check(store, n, d) = CACHE_MISS <=> n \notin DOMAIN lastPut
        /\ (n \in DOMAIN lastPut /\ lastPut[n] = d) => Check(store, n, d) = CACHE_HIT

\* C6, amended: a name has a record exactly when a replace() for it was not
\* followed by a remove(); check() answers CACHE_MISS for every domain list
\* when there is no record, and CACHE_HIT for the domain list of the last
\* replace() when there is one, whatever update() calls and calls on other
\* names came in between. (A record with another fingerprint gets the same
\* CACHE_MISS: check() has no answer that tells Missing from Stale.)
C6_Freshness ==
    /\ DOMAIN store = DOMAIN lastPut
    /\ \A n \in Names :
        /\ n \notin DOMAIN lastPut => \A d \in DomainLists : Check(store, n, d) = CACHE_MISS
        /\ n \in DOMAIN lastPut => Check(store, n, lastPut[n]) = CACHE_HIT

\* the last call was an update() that changed A's expiry; B has been removed
\* or never put
C6_Witness ==
    /\ log = <<Ev("update", "A", TRUE)>>
    /\ "A" \in DOMAIN lastPut
    /\ store["A"].expiry_date # PutExpiry
    /\ Check(store, "A", lastPut["A"]) = CACHE_HIT
    /\ "B" \notin DOMAIN store
    /\ Check(store, "B", lastPut["A"]) = CACHE_MISS

\* C7: the fingerprint of a domain list is that of each of its permutations,
\* so check() with a permutation of the list last put is a hit.
C7_Permutation ==
    \A n \in DOMAIN lastPut : \A p \in DomainLists :
        IsPerm(p, lastPut[n]) =>
            /\ Checksum(p) = Checksum(lastPut[n])
            /\ Check(store, n, p) = CACHE_HIT

C7_Witness ==
    /\ "A" \in DOMAIN lastPut
    /\ lastPut["A"] = <<<<2>>, <<1>>>>
    /\ Check(store, "A", <<<<1>>, <<2>>>>) = CACHE_HIT

\* C8: get_due_certs(30) returns exactly the records whose expiry is strictly
\* less than now + 30 days.
C8_RenewalWindow ==
    \A n \in DOMAIN store :
        n \in DOMAIN GetDueCerts(store, now, RenewWindow)
            <=> ParseIso(store[n].expiry_date) < LocalNow(now, tz) + Days(RenewWindow)

\* C8, the example of the claim alone: a record expiring at now + 29 days is
\* returned.
C8_TwentyNineDays ==
    \A n \in DOMAIN store :
        ParseIso(store[n].expiry_date) = LocalNow(now, tz) + Days(RenewWindow - 1)
            => n \in DOMAIN GetDueCerts(store, now, RenewWindow)

\* the process has ended: by a signal, a config error or an uncaught exception
Ended == pc \in {"stopped", "aborted", "crashed"}

InRenewLoop ==
    \/ pc \in {"renewing", "idle", "triggered", "shutting_down", "stopped"}
    \/ (pc = "renew_start" /\ passes > 0)

BadSection(section) ==
    \/ section.provider \notin Providers
    \/ ConfigCheckFails(section.provider, section)

\* C10: when a configured group names an unknown provider or fails its
\* provider's config check, the run does not get past the config check: no
\* provider call, no package installation, no store mutation and no hook.
C10_FailFast ==
    (\E n \in DOMAIN config : BadSection(config[n])) =>
        /\ pc \in {"start", "config_check", "aborted"}
        /\ log = <<>>
        /\ store = passStore
        /\ installed = {}

\* the bad section was met after a good one, whose certificate is still to
\* be generated
C10_Witness ==
    /\ pc = "aborted"
    /\ \E n \in DOMAIN config \ todo :
        /\ ~BadSection(config[n])
        /\ Check(store, n, config[n].domains) = CACHE_MISS
    /\ DOMAIN store # {}

\* C11: every config-parse or validation failure at startup (no config
\* directory, no section, a section without a required option, an unknown
\* provider, a failed provider config check) ends the process with exit code 2,
\* and a shutdown by signal ends it with exit code 0.
C11_ExitCodes ==
    /\ pc \in {"config_error", "aborted"} => ExitCode = 2
    /\ (pc = "stopped" /\ ~Logged("get_due_certs", "", FALSE)) => ExitCode = 0

\* C12 as stated: a renew pass is started only from Idle, on the daily timer
\* trigger; none starts between the end of the full-sync pass and the first
\* trigger.
C12_RenewOnlyOnTrigger == [][passes' = passes + 1 => pc = "triggered"]_vars

\* the order of the states of a run; a new run follows an ended one
StateOrder ==
    { <<"start", "config_check">>, <<"config_check", "packages">>,
      <<"config_check", "aborted">>, <<"packages", "sync_start">>,
      <<"packages", "crashed">>, <<"sync_start", "prune">>, <<"sync_start", "sync">>,
      <<"sync_start", "crashed">>, <<"prune", "sync">>, <<"sync", "renew_start">>,
      <<"sync", "crashed">>,
      <<"renew_start", "renewing">>, <<"renew_start", "idle">>, <<"renew_start", "stopped">>,
      <<"renewing", "idle">>, <<"renewing", "shutting_down">>, <<"shutting_down", "stopped">>,
      <<"idle", "triggered">>, <<"idle", "stopped">>,
      <<"triggered", "renewing">>, <<"triggered", "idle">>, <<"triggered", "stopped">>,
      <<"stopped", "start">>, <<"aborted", "start">>, <<"crashed", "start">> }

\* C12, amended: a run goes from its start through the config check and the
\* package installation to one full-sync pass; when that pass has returned the
\* first renew pass starts at once, with no timer trigger; then the task is
\* idle, and every later renew pass starts from Idle on the timer trigger.
C12_StateOrder ==
    [][/\ pc' # pc => <<pc, pc'>> \in StateOrder
       /\ passes' = passes + 1 =>
            IF passes = 0 THEN pc = "renew_start" ELSE pc = "triggered"]_vars

\* a second renew pass of a run, started by the timer, renews a certificate
C12_Witness ==
    /\ pc = "renewing"
    /\ passes > 1
    /\ log # <<>>

\* C13: at most one execution of _renew_certs is in flight, also once a
\* shutdown signal has come: a worker thread runs exactly while the task waits
\* for it or the process waits to end.
C13_OnePassInFlight ==
    /\ inflight \in {0, 1}
    /\ inflight = 1 <=> pc \in {"renewing", "shutting_down"}

\* the signal has come and the worker thread is half way through its rows
C13_Witness ==
    /\ pc = "shutting_down"
    /\ inflight = 1
    /\ log # <<>>
    /\ DOMAIN certs # {}

\* C14: while the process is in its full-sync pass, or before it, no renew pass
\* is in progress and none has been started in this run.
C14_NoOverlap ==
    pc \in {"start", "config_check", "packages", "sync_start", "prune", "sync"} =>
        /\ inflight = 0
        /\ passes = 0

\* a full-sync pass at work in a run that follows one whose renew loop ran
C14_Witness ==
    /\ pc = "sync"
    /\ runs > 1
    /\ prevSync.done
    /\ log # <<>>

\* C15: no failure inside a renew pass stops the daemon: it stops only when a
\* shutdown signal has come, never after a failed query, provider call, update
\* or hook of a renew pass.
C15_OnlySignalStops ==
    pc = "stopped" => ~Logged("get_due_certs", "", FALSE)

\* C16 as stated: at the end of the full-sync pass and of every renew pass each
\* record of the store carries the name of a configured group, also when a
\* revoke step failed in the pass.
C16_OnlyConfigured ==
    (PassEnded \/ pc = "idle") => DOMAIN store \subseteq DOMAIN config

\* C16, amended: at the end of the full-sync pass and from then on in the run,
\* a record whose name is not configured is one whose revoke step (the
\* provider's revoke or the store's remove) failed in that full-sync pass; when
\* no revoke step failed, every record carries the name of a configured group.
C16_Relationship ==
    (PassEnded \/ InRenewLoop) =>
        \A n \in DOMAIN store \ DOMAIN config : n \in syncFailed

\* B is left in the store by a failed revoke step and the first renew pass
\* has ended
C16_Witness ==
    /\ pc = "idle"
    /\ "B" \in DOMAIN store \ DOMAIN config
    /\ "B" \in syncFailed
    /\ "A" \in DOMAIN store \cap DOMAIN config

\* C17: a revoke of a name whose provider artifacts are already gone succeeds,
\* for both providers, so the prune of a stored name that is not configured is
\* not held up by the provider.
C17_RevokeIdempotent ==
    pc = "prune" =>
        \A n \in DOMAIN certs \ DOMAIN config :
            ~HasArtifacts(issued, certs[n].provider, n) =>
                ~RevokeCert(store, issued, n, certs[n].provider, "ok").raised

\* the lifetime renew_cert returns for a stored name
RenewedLifetime(name) ==
    IF store[name].provider = "certbot" THEN CertLifetime
    ELSE issued[<<"openssl", name>>].days

\* C19: in a renew pass, a successful renewal sets the record's expiry to now
\* plus the lifetime the provider returned and leaves its provider, domains and
\* fingerprint as they were; every other record is unchanged, and check()
\* answers for every name and domain list as before the pass.
C19_ExpiryOnly ==
    pc \in {"renewing", "idle", "shutting_down"} =>
        /\ DOMAIN store = DOMAIN passStore
        /\ \A n \in DOMAIN store :
            /\ IF Logged("update", n, TRUE)
               THEN store[n] = [passStore[n] EXCEPT !.expiry_date =
                                    IsoFormat(LocalNow(now, tz) + Days(RenewedLifetime(n)))]
               ELSE store[n] = passStore[n]
            /\ \A d \in DomainLists : Check(store, n, d) = Check(passStore, n, d)

\* A has been renewed, B has not
C19_Witness ==
    /\ pc = "idle"
    /\ Logged("update", "A", TRUE)
    /\ store["A"].expiry_date # passStore["A"].expiry_date
    /\ "B" \in DOMAIN store
    /\ ~Logged("update", "B", TRUE)

\* C20: when the configured domain set of a group differs from the recorded
\* one, a full-sync pass without failures calls generate and not renew for the
\* group, and leaves a record with the configured domains, their fingerprint
\* and a new expiry, for which check() is a hit.
C20_StaleRegenerated ==
    (PassEnded /\ syncFailed = {}) =>
        \A n \in DOMAIN config \cap DOMAIN passStore :
            SetOf(JsonLoads(passStore[n].domains)) # SetOf(config[n].domains) =>
                /\ Logged("generate", n, TRUE)
                /\ Count("renew", n) = 0
                /\ JsonLoads(store[n].domains) = config[n].domains
                /\ store[n].checksum = Checksum(config[n].domains)
                /\ store[n].expiry_date
                        = IsoFormat(LocalNow(now, tz)
                                    + Days(Lifetime(config[n].provider, config[n])))
                /\ Check(store, n, config[n].domains) = CACHE_HIT

StoreOpOf(op) == IF op = "generate" THEN "replace" ELSE IF op = "renew" THEN "update" ELSE "remove"
HookOf(op) == IF op = "remove" THEN "post_cert_revoke" ELSE "post_cert_gen"

\* in the list of calls l, each store call directly follows the successful
\* provider call of its action, and each hook the successful store call
OrderedLog(l) ==
    \A i \in 1..Len(l) :
        /\ l[i].op \in {"replace", "update", "remove"} =>
            /\ i > 1
            /\ l[i - 1].op \in {"generate", "renew", "revoke"}
            /\ StoreOpOf(l[i - 1].op) = l[i].op
            /\ l[i - 1].name = l[i].name
            /\ l[i - 1].ok
        /\ l[i].op \in {"post_cert_gen", "post_cert_revoke"} =>
            /\ i > 1
            /\ l[i - 1].op \in {"replace", "update", "remove"}
            /\ HookOf(l[i - 1].op) = l[i].op
            /\ l[i - 1].name = l[i].name
            /\ l[i - 1].ok

\* C21: in generate, renew and revoke of a name the provider is called first,
\* then the store, then the hook; the store call is made only when the
\* provider call returned and the hook is run only when the store call did,
\* and the store changes only in a step that logs a successful store call.
C21_StepOrder ==
    [][/\ OrderedLog(log')
       /\ store' # store =>
            \E i \in (Len(log) + 1)..Len(log') :
                log'[i].op \in {"replace", "update", "remove"} /\ log'[i].ok]_vars

\* a pass that revoked B with all three steps and whose replace of A failed
\* after the provider had generated
C21_Witness ==
    /\ PassEnded
    /\ Logged("post_cert_revoke", "B", TRUE)
    /\ Logged("replace", "A", FALSE)
    /\ Count("post_cert_gen", "A") = 0

\* the process is in its full-sync pass or has just ended it
InSyncPass == pc \in {"prune", "sync"} \/ PassEnded

\* the process is in a renew pass or has just ended one
InRenewPass == pc \in {"renewing", "idle", "shutting_down"}

\* C22: when a hook fails after a generate, renew or revoke, the store change
\* already made for that name stays (the new record, the new expiry, the
\* removal), the failure does not leave the pass, and the pass still goes
\* through every other name it has to handle.
C22_HookFailure ==
    /\ (log # <<>> /\ log[Len(log)].op \in {"post_cert_gen", "post_cert_revoke"}) =>
            pc \notin {"crashed", "aborted"}
    /\ InSyncPass =>
        \A n \in Names :
            /\ Logged("post_cert_gen", n, FALSE) =>
                /\ Fresh(n)
                /\ store[n].provider = config[n].provider
                /\ store[n].domains = JsonDumps(config[n].domains)
                /\ n \in syncFailed
            /\ Logged("post_cert_revoke", n, FALSE) =>
                /\ n \in DOMAIN passStore
                /\ n \notin DOMAIN store
                /\ n \in syncFailed
    /\ InRenewPass =>
        \A n \in Names :
            Logged("post_cert_gen", n, FALSE) =>
                /\ n \in DOMAIN store
                /\ store[n].expiry_date =
                        IsoFormat(LocalNow(now, tz) + Days(RenewedLifetime(n)))
    /\ PassEnded =>
        /\ \A n \in DOMAIN passStore \ DOMAIN config : Count("revoke", n) = 1
        /\ \A n \in DOMAIN config :
                Check(passStore, n, config[n].domains) = CACHE_MISS =>
                    Count("generate", n) = 1
    /\ pc = "idle" =>
        \A n \in DOMAIN GetDueCerts(passStore, now, RenewWindow) : Count("renew", n) = 1

\* the hook failed after A's record was written, the record is there, and B
\* was generated later in the same pass
C22_Witness ==
    /\ PassEnded
    /\ Fresh("A")
    /\ "A" \notin DOMAIN passStore
    /\ \E i, j \in 1..Len(log) :
        /\ i < j
        /\ log[i] = Ev("post_cert_gen", "A", FALSE)
        /\ log[j] = Ev("replace", "B", TRUE)

\* C23: when the provider's revoke fails for a stored name that is not
\* configured, its record stays as it was and no post_cert_revoke hook runs
\* for it; the pass is not ended by it, every other unconfigured record is
\* still revoked and every configured group still synced; and the full-sync
\* pass of the next run calls revoke for that name again.
C23_PruneFailure ==
    /\ (log # <<>> /\ log[Len(log)].op = "revoke") => pc \notin {"crashed", "aborted"}
    /\ InSyncPass =>
        \A n \in Names :
            Logged("revoke", n, FALSE) =>
                /\ n \in DOMAIN store
                /\ store[n] = passStore[n]
                /\ n \in syncFailed
                /\ Count("remove", n) = 0
                /\ Count("post_cert_revoke", n) = 0
    /\ PassEnded =>
        /\ \A n \in DOMAIN passStore \ DOMAIN config : Count("revoke", n) = 1
        /\ \A n \in DOMAIN config :
                /\ Count("revoke", n) = 0
                /\ Check(passStore, n, config[n].domains) = CACHE_MISS =>
                        Count("generate", n) = 1
        /\ runs > 1 =>
            \A n \in (prevSync.failed \cap DOMAIN store) \ DOMAIN config :
                /\ n \in DOMAIN passStore
                /\ Count("revoke", n) = 1

\* the provider failed to revoke B in the first run, and the full-sync pass of
\* the second run has called revoke for B again
C23_Witness ==
    /\ PassEnded
    /\ runs = 2
    /\ "B" \in prevSync.failed
    /\ "B" \in DOMAIN store \ DOMAIN config
    /\ HasArtifacts(issued, store["B"].provider, "B")
    /\ Logged("revoke", "B", FALSE)

\* what holds in every state of a renew pass in which a provider's renew failed
RenewFailureIsolated ==
    /\ (log # <<>> /\ log[Len(log)].op = "renew") => pc \notin {"crashed", "aborted"}
    /\ InRenewPass =>
        \A n \in Names :
            Logged("renew", n, FALSE) =>
                /\ n \in DOMAIN store
                /\ store[n] = passStore[n]
                /\ Count("update", n) = 0
                /\ Count("post_cert_gen", n) = 0
    /\ pc = "idle" =>
        LET due == GetDueCerts(passStore, now, RenewWindow)
        IN \A n \in Names :
            /\ Count("renew", n) = IF n \in DOMAIN due THEN 1 ELSE 0
            /\ Logged("update", n, TRUE) =>
                    store[n].expiry_date =
                        IsoFormat(LocalNow(now, tz) + Days(RenewedLifetime(n)))
            /\ Logged("renew", n, FALSE) =>
                    n \in DOMAIN GetDueCerts(store, now, RenewWindow)

\* C24: when the provider's renew fails for a due certificate, its record is
\* left as it was and no hook runs for it, every other due certificate of the
\* pass is still renewed, the pass ends without raising, the failed
\* certificate is still due, and the pass of the next trigger takes it up again.
C24_RenewFailure ==
    /\ []RenewFailureIsolated
    /\ [][(pc = "triggered" /\ pc' \in {"renewing", "idle"}) =>
            \A n \in Names : Logged("renew", n, FALSE) => n \in DOMAIN certs']_vars

\* the renew of A failed, B was renewed after it in the same pass, and A is
\* still due
C24_Witness ==
    /\ pc = "idle"
    /\ "A" \in DOMAIN GetDueCerts(store, now, RenewWindow)
    /\ "B" \in DOMAIN store \cap DOMAIN passStore
    /\ store["B"].expiry_date # passStore["B"].expiry_date
    /\ \E i, j \in 1..Len(log) :
        /\ i < j
        /\ log[i] = Ev("renew", "A", FALSE)
        /\ log[j] = Ev("update", "B", TRUE)

\* C25: the next trigger is computed at the time the renew pass was started,
\* not after it, and no 02:00 lies between the start of a pass and the trigger
\* chosen after it, however long the pass runs.
C25_ClockNotDelayed ==
    \A i \in 2..Len(log) :
        (log[i].op = "sleep" /\ log[i - 1].op = "pass") =>
            /\ log[i].at = log[i - 1].from
            /\ log[i].next_run - DayTicks <= log[i - 1].from

\* C26: the trigger chosen at local time t is 02:00 of the same day when t is
\* not after 02:00 and 02:00 of the next day otherwise, so it is the first
\* 02:00 that is not before t; the wait is the whole seconds up to it, at
\* least 0 and less than 24 hours.
C26_NextTrigger ==
    \A i \in 1..Len(log) :
        log[i].op = "sleep" =>
            LET t == log[i].at
                today == (t \div DayTicks) * DayTicks
                next_run == log[i].next_run
                wait == log[i].seconds
            IN /\ t % DayTicks <= Hours(2) => next_run = today + Hours(2)
               /\ t % DayTicks > Hours(2) => next_run = today + DayTicks + Hours(2)
               /\ next_run >= t
               /\ next_run - DayTicks < t
               /\ wait >= 0
               /\ wait < 24 * 3600
               /\ wait * TicksPerSec <= next_run - t
               /\ next_run - t < (wait + 1) * TicksPerSec

\* the task has computed a trigger at 02:00 sharp, which is that same 02:00,
\* and one just after 02:00, which is 02:00 of the next day
C26_Witness ==
    \E i, j \in 1..Len(log) :
        /\ log[i].op = "sleep"
        /\ log[i].at % DayTicks = Hours(2)
        /\ log[i].seconds = 0
        /\ log[j].op = "sleep"
        /\ log[j].at % DayTicks = Hours(2) + 1
        /\ log[j].next_run = log[j].at - 1 + DayTicks
        /\ log[j].seconds = 24 * 3600 - 1

\* the records of a renew pass that a signal may have found at work: each is
\* as the pass found it or carries the whole new expiry and nothing else new
NoPartialRenewal ==
    (InRenewPass \/ pc = "stopped") =>
        /\ DOMAIN store = DOMAIN passStore
        /\ \A n \in DOMAIN store :
            \/ store[n] = passStore[n]
            \/ /\ Logged("update", n, TRUE)
               /\ store[n] = [passStore[n] EXCEPT !.expiry_date =
                                 IsoFormat(LocalNow(now, tz) + Days(RenewedLifetime(n)))]

\* what a step does at and after the signal
AfterSignal ==
    /\ ((pc = "idle" /\ pc' = "stopped") \/ (pc = "renewing" /\ pc' = "shutting_down")) =>
            (store' = store /\ certs' = certs /\ log' = log)
    /\ pc = "shutting_down" =>
            /\ pc' \in {"shutting_down", "stopped"}
            /\ passes' = passes
            /\ \E n \in DOMAIN certs : certs' = Rest(certs, n)
    /\ pc = "stopped" => pc' = "start"

C28_ProviderReconciled ==
    (PassEnded /\ syncFailed = {}) =>
        \A n \in DOMAIN config :
            /\ n \in DOMAIN store
            /\ store[n].provider = config[n].provider

\* C29: the provider's renew is never called for a name that is not
\* configured, also when the revoke of that name failed in the prune before.
C29_RenewOnlyConfigured ==
    InRenewLoop => \A n \in Names : Count("renew", n) > 0 => n \in DOMAIN config

\* the record of name carries the fingerprint of the domain list its provider
\* issued the certificate of name for
IssuedFor(db, iss, name) ==
    /\ <<db[name].provider, name>> \in DOMAIN iss
    /\ db[name].checksum = Checksum(iss[<<db[name].provider, name>>].domains)
    /\ db[name].domains = JsonDumps(iss[<<db[name].provider, name>>].domains)

\* the calls a step adds to the log
NewCalls == {log'[i] : i \in (Len(log) + 1)..Len(log')}

\* a step gives a name a record, or a record of another fingerprint, domain
\* list or provider, only with a generate that returned for that domain list,
\* and a step whose generate failed leaves the record of the name as it was
RecordNeedsGenerate ==
    \A n \in Names :
        /\ (/\ n \in DOMAIN store'
            /\ \/ n \notin DOMAIN store
               \/ store'[n].checksum # store[n].checksum
               \/ store'[n].domains # store[n].domains
               \/ store'[n].provider # store[n].provider) =>
                /\ Ev("generate", n, TRUE) \in NewCalls
                /\ IssuedFor(store', issued', n)
        /\ Ev("generate", n, FALSE) \in NewCalls => SameRow(store, store', n)
        /\ (n \in DOMAIN store /\ n \notin DOMAIN store') => Ev("remove", n, TRUE) \in NewCalls

\* C30: a record of name N with fingerprint F is in the store only after a
\* generate of N for a domain list of fingerprint F has returned, with no
\* successful remove of N since: the records a run starts with are those of
\* issued certificates, a record appears or gets another fingerprint only in
\* a step whose generate returned, and a failed generate changes no record.
C30_RecordsAreIssued ==
    /\ []((pc = "start" /\ runs = 1) => \A n \in DOMAIN store : IssuedFor(store, issued, n))
    /\ [][RecordNeedsGenerate]_vars

\* in one pass A, which had no record, was generated and recorded, and the
\* generate of B failed and left B without the record of its configured domains
C30_Witness ==
    /\ PassEnded
    /\ "A" \notin DOMAIN passStore
    /\ Fresh("A")
    /\ Logged("generate", "A", TRUE)
    /\ Logged("generate", "B", FALSE)
    /\ SameRow(store, passStore, "B")
    /\ ~Fresh("B")

\* C31: a record that the pass before has just generated or renewed is not
\* among the rows get_due_certs(30) returns to the renew pass that follows it,
\* whatever lifetime its provider returned.
C31_NoReissue ==
    [][(pc \in {"renew_start", "triggered"} /\ pc' \in {"renewing", "idle"}) =>
            \A n \in Names :
                (Logged("replace", n, TRUE) \/ Logged("update", n, TRUE)) =>
                    n \notin DOMAIN certs']_vars

\* C32: the renew pass that follows a wait starts at or after the trigger the
\* wait was computed for, and the wait after that pass is for a trigger of a
\* later day, so one pass is started per daily trigger.
C32_OnePassPerTrigger ==
    \A i \in 1..Len(log) :
        log[i].op = "sleep" =>
            /\ i < Len(log) => log[i + 1].from >= log[i].next_run
            /\ i + 2 <= Len(log) => log[i + 2].next_run >= log[i].next_run + DayTicks

\* the record the pass found for name does not carry the fingerprint of the
\* domains configured for it, or there is none
NotFresh(name) ==
    \/ name \notin DOMAIN passStore
    \/ passStore[name].checksum # Checksum(config[name].domains)

\* C33: in a full-sync pass the provider's revoke is called only for names
\* that have a record and are not configured, and its generate only for
\* configured names whose record is missing or of another fingerprint; no
\* configured name is revoked, no name is both revoked and generated in a
\* pass, and none is called for twice.
C33_RightNames ==
    (InSyncPass \/ pc = "crashed") =>
        \A n \in Names :
            /\ Count("revoke", n) > 0 =>
                /\ n \in DOMAIN passStore
                /\ n \notin DOMAIN config
                /\ Count("revoke", n) = 1
                /\ Count("generate", n) = 0
            /\ Count("generate", n) > 0 =>
                /\ n \in DOMAIN config
                /\ NotFresh(n)
                /\ Count("generate", n) = 1

\* a pass that revoked B, stored and not configured, generated A, configured
\* and without a record
C33_Witness ==
    /\ PassEnded
    /\ Logged("revoke", "B", TRUE)
    /\ "B" \in DOMAIN passStore \ DOMAIN config
    /\ Logged("generate", "A", TRUE)
    /\ "A" \in DOMAIN config \ DOMAIN passStore

====
